---- MODULE Spec2Model ----
(***************************************************************************)
(* A model of poe_api's OAuth2 authorization flow (src/src/lib.rs):        *)
(* PoEApi::get_token, PoEApi::close_authorization_server and               *)
(* AuthorizationServer::get_authorization_code, run against a local        *)
(* tiny_http listener that is owned by the PoEApi and shared by every      *)
(* get_token call made on it.                                              *)
(*                                                                         *)
(* One PoEApi is modelled.  Each element of Flows is one call of           *)
(* get_token on it; calls may follow each other or overlap.  The           *)
(* environment delivers requests to the listener, raises transport errors  *)
(* and calls close_authorization_server.                                   *)
(***************************************************************************)
EXTENDS Naturals, Sequences, FiniteSets, TLC

\* Number of get_token calls made on the PoEApi.
MaxFlows == 2
\* Number of requests the listener holds before one is received.
MaxQueue == 1
\* Number of scopes passed to one get_token call.
MaxScopes == 2

Flows == 1..MaxFlows

\* CsrfToken::new_random: one secret per call; an abstract name per secret.
Tokens == {ToString(i) : i \in 1..MaxFlows}
\* Values a `code` parameter carries.
Codes == {"A", "B"}

NoToken == "no_token"
NoValue == "None"
NoCode == "no_code"
NoResult == "pending"

\* Error variants a caller of get_token can receive (enum Error), and Ok.
OkToken == "Ok(BasicTokenResponse)"
IoError == "IoError"
UrlParseError == "UrlParseError"
CustomError == "Custom"
FailedToGetAuthorizationCode == "FailedToGetAuthorizationCode"

\* What the presentation callback may return as Err(..): any Error value of
\* the caller's choice.
CallbackErrors == {CustomError, IoError}

\* A request as get_authorization_code sees it.  `parses` is the outcome of
\* Url::parse on redirect_url ++ request.url(); `query` is the list of
\* (key, value) pairs of url.query_pairs(), in order.  The parse fails, for
\* one, when redirect_url has no path and the request target is not a path:
\* "foo://host" ++ ":x" has an invalid port.
BadRequest == [parses |-> FALSE, query |-> <<>>]
NoRequest == [parses |-> FALSE, query |-> <<<<"none", "none">>>>]
NoUrl == [state |-> NoToken]
NoAccept == [state |-> NoValue, closed |-> FALSE]

StatePair(t) == <<"state", t>>
CodePair(c) == <<"code", c>>

Queries ==
  {<<>>}
    \cup {<<StatePair(t)>> : t \in Tokens}
    \cup {<<CodePair(c)>> : c \in Codes}
    \cup {<<StatePair(t), CodePair(c)>> : t \in Tokens, c \in Codes}
    \cup {<<CodePair("A"), StatePair(tu[1]), StatePair(tu[2])>> :
            tu \in {x \in Tokens \X Tokens : x[1] # x[2]}}

Requests == {BadRequest} \cup {[parses |-> TRUE, query |-> q] : q \in Queries}

VARIABLES
  close_handle,   \* AuthorizationServer.close_handle
  queue,          \* requests accepted by tiny_http::Server, not yet received
  pc,             \* each get_token call's position
  csrf_token,     \* each call's csrf_token
  request,        \* the request a call is handling
  authorization_code, \* what get_authorization_code returned to the call
  result,         \* what get_token returned to its caller
  cause,          \* history: why the call ended
  response,       \* history: the last response the call wrote to a client
  rejected,       \* history: the call has sent a 422
  polled,         \* history: the call has called recv_timeout
  closed_during,  \* history: close_authorization_server ran during the call
  callback_returned, \* history: what the presentation callback returned
  auth_url,       \* the authorization URL get_token built for the call
  callback_calls, \* history: the URLs the callback was called with
  exchanged,      \* history: the codes the call passed to exchange_code
  accepted,       \* history: the state of the request the call answered
                  \* with 200, and the flag's value at that moment
  answered,       \* history: the request last received has been answered
  rejected_stale, \* history: the call has sent a 422 to a request whose
                  \* state was the token of a call that had ended
  call,           \* a call of one of the library's pure operations
  ret             \* what that call returned

vars == <<close_handle, queue, pc, csrf_token, request, authorization_code,
          result, cause, response, rejected, polled, closed_during,
          callback_returned, auth_url, callback_calls, exchanged, accepted,
          answered, rejected_stale, call, ret>>

flow_vars == <<pc, csrf_token, request, authorization_code, result, cause,
               response, rejected, polled, closed_during, callback_returned,
               auth_url, callback_calls, exchanged, accepted, answered,
               rejected_stale>>

\* The variables of the pure operations, which no step of a flow touches.
pure_vars == <<call, ret>>

\* query.iter().find(|(key, _)| key == k).map(|(_, value)| value)
RECURSIVE Find(_, _)
Find(query, key) ==
  IF query = <<>> THEN NoValue
  ELSE IF Head(query)[1] = key THEN Head(query)[2]
  ELSE Find(Tail(query), key)

\* Accepts without the guard of the match arm: any state is taken.
AcceptsAnyState(state, req) ==
  /\ Find(req.query, "state") # NoValue
  /\ Find(req.query, "code") # NoValue

\* The match arm `(Some(code), Some(state)) if state.secret() == query_state`
Accepts(state, req) ==
  /\ Find(req.query, "state") # NoValue
  /\ Find(req.query, "code") # NoValue
  /\ state = Find(req.query, "state")

(***************************************************************************)
(* The pure operations: scope rendering and parsing, the config builder,   *)
(* and send_checked.  A string is modelled as the sequence of its pieces:  *)
(* "account:profile" is <<"account", ":", "profile">>, and "account::" is  *)
(* <<"account", ":", ":">>.                                                 *)
(***************************************************************************)

\* enum PoEApiAccountScope
AccountScopes ==
  {"Profile", "Leagues", "Stashes", "Characters", "LeagueAccounts",
   "ItemFilter"}

\* name with two arms swapped.
name_swapped(scope) ==
  CASE scope = "Profile" -> <<"account", ":", "profile">>
    [] scope = "Leagues" -> <<"account", ":", "leagues">>
    [] scope = "Stashes" -> <<"account", ":", "stashes">>
    [] scope = "Characters" -> <<"account", ":", "characters">>
    [] scope = "LeagueAccounts" -> <<"account", ":", "item_filter">>
    [] scope = "ItemFilter" -> <<"account", ":", "league_accounts">>

\* PoEApiAccountScope::name
name(scope) ==
  CASE scope = "Profile" -> <<"account", ":", "profile">>
    [] scope = "Leagues" -> <<"account", ":", "leagues">>
    [] scope = "Stashes" -> <<"account", ":", "stashes">>
    [] scope = "Characters" -> <<"account", ":", "characters">>
    [] scope = "LeagueAccounts" -> <<"account", ":", "league_accounts">>
    [] scope = "ItemFilter" -> <<"account", ":", "item_filter">>

\* ToString for PoEApiAccountScope and for PoEApiScope::Account(scope)
to_string(scope) == name(scope)

\* str::trim_start_matches: the prefix is removed as often as it occurs.
RECURSIVE trim_start_matches(_, _)
trim_start_matches(str, pat) ==
  IF Len(pat) > 0 /\ Len(str) >= Len(pat) /\ SubSeq(str, 1, Len(pat)) = pat
    THEN trim_start_matches(SubSeq(str, Len(pat) + 1, Len(str)), pat)
    ELSE str

ParseError == [kind |-> "Err", error |-> CustomError,
               message |-> "Failed to parse account scope"]
ParsedScope(scope) == [kind |-> "Ok", scope |-> scope]

\* The prefix from_str removes.
ScopePrefix == <<"account", ":", ":">>

\* PoEApiAccountScope::from_str; PoEApiScope::from_str maps its Ok value
\* into PoEApiScope::Account and is the same function of the string.
from_str(str) ==
  LET rest == trim_start_matches(str, ScopePrefix)
  IN  CASE rest = <<"profile">> -> ParsedScope("Profile")
        [] rest = <<"leagues">> -> ParsedScope("Leagues")
        [] rest = <<"stashes">> -> ParsedScope("Stashes")
        [] rest = <<"characters">> -> ParsedScope("Characters")
        [] rest = <<"league_accounts">> -> ParsedScope("LeagueAccounts")
        [] rest = <<"item_filter">> -> ParsedScope("ItemFilter")
        [] OTHER -> ParseError

\* [String]::join(" "), as the authorization URL's `scope` value is built.
RECURSIVE Join(_)
Join(strs) ==
  IF strs = <<>> THEN <<>>
  ELSE IF Len(strs) = 1 THEN Head(strs)
  ELSE Head(strs) \o <<" ">> \o Join(Tail(strs))

\* scopes.into_iter().map(|s| s.into().to_string()).map(Scope::new), then
\* add_scopes(..).url(): the value of the URL's `scope` parameter.
ScopeParam(scopes) == Join([i \in 1..Len(scopes) |-> to_string(scopes[i])])

\* The scope collections a caller passes.
RECURSIVE SeqsUpTo(_, _)
SeqsUpTo(S, n) ==
  IF n = 0 THEN {<<>>}
  ELSE SeqsUpTo(S, n - 1)
         \cup {Append(q, x) : q \in SeqsUpTo(S, n - 1), x \in S}

ScopeInputs == SeqsUpTo(AccountScopes, MaxScopes)

\* The strings from_str is called with: the renderings, the bare names, the
\* names behind one and two "account::", and strings that name no scope.
BareNames == {<<name(sc)[3]>> : sc \in AccountScopes}
ParseInputs ==
  {to_string(sc) : sc \in AccountScopes}
    \cup BareNames
    \cup {ScopePrefix \o b : b \in BareNames}
    \cup {ScopePrefix \o ScopePrefix \o b : b \in BareNames}
    \cup {<<>>, ScopePrefix, <<"account", ":">>, <<"bogus">>,
          <<"Profile">>, <<"profile", " ">>}

\* struct PoEApiConfig: its fields, and those without a builder default.
ConfigFields ==
  {"client_id", "version", "contact_email", "redirect_url", "redirect_addr",
   "close_html"}
\* RequiredFields with redirect_addr given a default.
RequiredFieldsNoAddr ==
  {"client_id", "version", "contact_email", "redirect_url"}
RequiredFields ==
  {"client_id", "version", "contact_email", "redirect_url", "redirect_addr"}

\* pub const CLOSE_HTML
CLOSE_HTML == "<!DOCTYPE html>..You can close this page..</html>"

\* The order in which the generated build() looks at the fields.
FieldOrder ==
  <<"client_id", "version", "contact_email", "redirect_url", "redirect_addr",
    "close_html">>

\* The first field of FieldOrder, from position i on, that is required and
\* not set; "none" when there is none.
RECURSIVE FirstMissing(_, _)
FirstMissing(set, i) ==
  IF i > Len(FieldOrder) THEN "none"
  ELSE IF FieldOrder[i] \in RequiredFields /\ FieldOrder[i] \notin set
    THEN FieldOrder[i]
  ELSE FirstMissing(set, i + 1)

\* PoEApiConfigBuilder::build, generated by #[derive(Builder)]: `set` are the
\* fields a setter was called for; a set field holds the caller's value.
build(set) ==
  IF FirstMissing(set, 1) # "none"
    THEN [kind |-> "Err", error |-> "UninitializedField",
          field |-> FirstMissing(set, 1)]
    ELSE [kind |-> "Ok",
          config |->
            [f \in ConfigFields |->
               IF f \in set THEN "given"
               ELSE IF f = "close_html" THEN CLOSE_HTML
               ELSE "unset"]]

\* HTTP statuses and bodies of the responses send_checked sees.
Statuses == {200, 204, 302, 400, 401, 404, 499, 500, 503, 599}
ErrorBodies ==
  [json : {TRUE}, error : {"invalid_token", "server_error"},
   error_description : {"expired", "try later"}]
OtherBody == [json |-> FALSE, error |-> "", error_description |-> ""]
Responses ==
  [sent : {TRUE}, status : Statuses, body : ErrorBodies \cup {OtherBody}]
\* self.send() failing: there is no response.
NoResponse == [sent |-> FALSE, status |-> 0, body |-> OtherBody]

\* is_client_error without is_server_error.
IsErrorStatusClientOnly(status) == status >= 400 /\ status <= 499
\* status.is_client_error() || status.is_server_error()
IsErrorStatus(status) ==
  (status >= 400 /\ status <= 499) \/ (status >= 500 /\ status <= 599)

ReqwestError == "ReqwestError"

\* RequestBuilderExt2::send_checked on a request answered with `resp`.
send_checked(resp) ==
  IF ~resp.sent THEN [kind |-> "Err", error |-> ReqwestError]
  ELSE IF IsErrorStatus(resp.status)
    THEN IF resp.body.json
           THEN [kind |-> "Err", error |-> "PoEApiError",
                 fields |-> [error |-> resp.body.error,
                             error_description |->
                               resp.body.error_description]]
           ELSE [kind |-> "Err", error |-> ReqwestError]
    ELSE [kind |-> "Ok", response |-> resp]

\* The calls of the pure operations.
PureCalls ==
  {[op |-> "scope_param", arg |-> q] : q \in ScopeInputs}
    \cup {[op |-> "from_str", arg |-> str] : str \in ParseInputs}
    \cup {[op |-> "build", arg |-> set] : set \in SUBSET ConfigFields}
    \cup {[op |-> "send_checked", arg |-> r] :
            r \in Responses \cup {NoResponse}}

\* No pure operation is being called.
NoCall == [op |-> "none"]
NoRet == [kind |-> "none"]

\* The value get_authorization_code returns when recv_timeout returns Err.
RecvErrorResult == FailedToGetAuthorizationCode
\* The value it returns when the flag is seen set after an empty poll.
CancelledResult == FailedToGetAuthorizationCode
\* The value get_token returns when the exchange fails.
ExchangeErrorResult == FailedToGetAuthorizationCode

Init ==
  /\ close_handle = FALSE
  /\ queue = <<>>
  /\ pc = [f \in Flows |-> "idle"]
  /\ csrf_token = [f \in Flows |-> NoToken]
  /\ request = [f \in Flows |-> NoRequest]
  /\ authorization_code = [f \in Flows |-> NoCode]
  /\ result = [f \in Flows |-> NoResult]
  /\ cause = [f \in Flows |-> "none"]
  /\ response = [f \in Flows |-> "none"]
  /\ rejected = [f \in Flows |-> FALSE]
  /\ polled = [f \in Flows |-> FALSE]
  /\ closed_during = [f \in Flows |-> FALSE]
  /\ callback_returned = [f \in Flows |-> "none"]
  /\ auth_url = [f \in Flows |-> NoUrl]
  /\ callback_calls = [f \in Flows |-> <<>>]
  /\ exchanged = [f \in Flows |-> <<>>]
  /\ accepted = [f \in Flows |-> NoAccept]
  /\ answered = [f \in Flows |-> TRUE]
  /\ rejected_stale = [f \in Flows |-> FALSE]
  /\ call = NoCall
  /\ ret = NoRet

\* A flow ends: get_token returns `r` to its caller.
Return(f, r, why) ==
  /\ pc' = [pc EXCEPT ![f] = "done"]
  /\ result' = [result EXCEPT ![f] = r]
  /\ cause' = [cause EXCEPT ![f] = why]

\* The environment: a client connects and sends a request.
RequestArrives(r) ==
  /\ Len(queue) < MaxQueue
  /\ queue' = Append(queue, r)
  /\ UNCHANGED <<close_handle, flow_vars, pure_vars>>

\* PoEApi::close_authorization_server
CloseAuthorizationServer ==
  /\ close_handle' = TRUE
  /\ closed_during' =
       [f \in Flows |-> closed_during[f] \/ pc[f] \notin {"idle", "done"}]
  /\ UNCHANGED <<queue, pc, csrf_token, request, authorization_code, result,
                 cause, response, rejected, polled, callback_returned,
                 auth_url, callback_calls, exchanged, accepted, answered,
                 rejected_stale, pure_vars>>

\* CsrfToken::new_random for the f-th call: a secret no other call draws.
NewRandom(f) == ToString(f)

\* client.authorize_url(..).url(): the URL carries the secret as `state`.
AuthorizeUrl(secret) == [state |-> secret]

\* GetToken without the call of the callback: the wait starts at once.
GetTokenSkipsCallback(f) ==
  /\ pc[f] = "idle"
  /\ \A g \in Flows : g < f => pc[g] # "idle"
  /\ csrf_token' = [csrf_token EXCEPT ![f] = NewRandom(f)]
  /\ auth_url' = [auth_url EXCEPT ![f] = AuthorizeUrl(NewRandom(f))]
  /\ pc' = [pc EXCEPT ![f] = "recv"]
  /\ UNCHANGED <<close_handle, queue, request, authorization_code, result,
                 cause, response, rejected, polled, closed_during,
                 callback_returned, callback_calls, exchanged, accepted,
                 answered, rejected_stale, pure_vars>>

\* PoEApi::get_token up to the call of the callback: the client, the PKCE
\* pair and the CSRF token of this call.  Calls are numbered in the order
\* they are made.
GetToken(f) ==
  /\ pc[f] = "idle"
  /\ \A g \in Flows : g < f => pc[g] # "idle"
  /\ csrf_token' = [csrf_token EXCEPT ![f] = NewRandom(f)]
  /\ auth_url' = [auth_url EXCEPT ![f] = AuthorizeUrl(NewRandom(f))]
  /\ pc' = [pc EXCEPT ![f] = "callback"]
  /\ UNCHANGED <<close_handle, queue, request, authorization_code, result,
                 cause, response, rejected, polled, closed_during,
                 callback_returned, callback_calls, exchanged, accepted,
                 answered, rejected_stale, pure_vars>>

\* Callback with the `?` dropped: the callback's failure is not looked at.
CallbackFailureIgnored(f) ==
  /\ pc[f] = "callback"
  /\ \E r \in {"Ok"} \cup CallbackErrors :
       callback_returned' = [callback_returned EXCEPT ![f] = r]
  /\ callback_calls' =
       [callback_calls EXCEPT ![f] = Append(@, auth_url[f])]
  /\ pc' = [pc EXCEPT ![f] = "recv"]
  /\ UNCHANGED <<close_handle, queue, csrf_token, request, authorization_code,
                 result, cause, response, rejected, polled, closed_during,
                 auth_url, exchanged, accepted, answered, rejected_stale,
                 pure_vars>>

\* callback(auth_url).into()?
Callback(f) ==
  /\ pc[f] = "callback"
  /\ \/ /\ callback_returned' = [callback_returned EXCEPT ![f] = "Ok"]
        /\ pc' = [pc EXCEPT ![f] = "recv"]
        /\ UNCHANGED <<result, cause>>
     \/ \E e \in CallbackErrors :
          /\ callback_returned' = [callback_returned EXCEPT ![f] = e]
          /\ Return(f, e, "callback_failed")
  /\ callback_calls' =
       [callback_calls EXCEPT ![f] = Append(@, auth_url[f])]
  /\ UNCHANGED <<close_handle, queue, csrf_token, request, authorization_code,
                 response, rejected, polled, closed_during, auth_url,
                 exchanged, accepted, answered, rejected_stale, pure_vars>>

\* Recv that loads the flag at every poll, not only at an empty one.
RecvChecksClose(f) ==
  /\ pc[f] = "recv"
  /\ polled' = [polled EXCEPT ![f] = TRUE]
  /\ \/ /\ close_handle
        /\ Return(f, CancelledResult, "cancelled")
        /\ UNCHANGED <<queue, request, answered>>
     \/ /\ ~close_handle
        /\ queue # <<>>
        /\ request' = [request EXCEPT ![f] = Head(queue)]
        /\ queue' = Tail(queue)
        /\ answered' = [answered EXCEPT ![f] = FALSE]
        /\ pc' = [pc EXCEPT ![f] = "handle"]
        /\ UNCHANGED <<result, cause>>
     \/ /\ ~close_handle
        /\ queue = <<>>
        /\ pc' = [pc EXCEPT ![f] = "timeout"]
        /\ UNCHANGED <<queue, request, result, cause, answered>>
     \/ /\ Return(f, RecvErrorResult, "recv_error")
        /\ UNCHANGED <<queue, request, answered>>
  /\ UNCHANGED <<close_handle, csrf_token, authorization_code, response,
                 rejected, closed_during, callback_returned, auth_url,
                 callback_calls, exchanged, accepted, rejected_stale,
                 pure_vars>>

\* self.server.recv_timeout(Duration::from_millis(100)) and the `while let Ok`
Recv(f) ==
  /\ pc[f] = "recv"
  /\ polled' = [polled EXCEPT ![f] = TRUE]
  /\ \/ /\ queue # <<>>
        /\ request' = [request EXCEPT ![f] = Head(queue)]
        /\ queue' = Tail(queue)
        /\ answered' = [answered EXCEPT ![f] = FALSE]
        /\ pc' = [pc EXCEPT ![f] = "handle"]
        /\ UNCHANGED <<result, cause>>
     \/ /\ queue = <<>>
        /\ pc' = [pc EXCEPT ![f] = "timeout"]
        /\ UNCHANGED <<queue, request, result, cause, answered>>
     \/ /\ Return(f, RecvErrorResult, "recv_error")
        /\ UNCHANGED <<queue, request, answered>>
  /\ UNCHANGED <<close_handle, csrf_token, authorization_code, response,
                 rejected, closed_during, callback_returned, auth_url,
                 callback_calls, exchanged, accepted, rejected_stale,
                 pure_vars>>

\* CheckClose without the load of close_handle: an empty poll always
\* continues.
CheckCloseNeverCancels(f) ==
  /\ pc[f] = "timeout"
  /\ pc' = [pc EXCEPT ![f] = "recv"]
  /\ UNCHANGED <<close_handle, queue, csrf_token, request, authorization_code,
                 result, cause, response, rejected, polled, closed_during,
                 callback_returned, auth_url, callback_calls, exchanged,
                 accepted, answered, rejected_stale, pure_vars>>

\* The `else` branch of `let Some(request) = request`: the flag is loaded.
CheckClose(f) ==
  /\ pc[f] = "timeout"
  /\ IF close_handle
       THEN Return(f, CancelledResult, "cancelled")
       ELSE /\ pc' = [pc EXCEPT ![f] = "recv"]
            /\ UNCHANGED <<result, cause>>
  /\ UNCHANGED <<close_handle, queue, csrf_token, request, authorization_code,
                 response, rejected, polled, closed_during,
                 callback_returned, auth_url, callback_calls, exchanged,
                 accepted, answered, rejected_stale, pure_vars>>

\* Where get_authorization_code goes after a request that was not accepted
\* has been answered.
AfterReject == "recv"
\* AfterAccept with the `return` dropped: the loop goes on after a 200.
AfterAcceptKeepsWaiting == "recv"
\* Where get_token goes once get_authorization_code has returned Ok(code).
AfterAccept == "exchange"

\* The body of the loop for a received request: parse, match, respond.
HandleRequest(f) ==
  /\ pc[f] = "handle"
  /\ request' = [request EXCEPT ![f] = NoRequest]
  /\ IF ~request[f].parses
       THEN /\ Return(f, UrlParseError, "url_parse")
            /\ UNCHANGED <<authorization_code, response, rejected, accepted,
                           answered, rejected_stale>>
       ELSE IF Accepts(csrf_token[f], request[f])
         THEN /\ response' = [response EXCEPT ![f] = "200 close_html"]
              /\ answered' = [answered EXCEPT ![f] = TRUE]
              /\ accepted' =
                   [accepted EXCEPT
                      ![f] = [state |-> Find(request[f].query, "state"),
                              closed |-> close_handle]]
              /\ UNCHANGED <<rejected, rejected_stale>>
              /\ \/ /\ authorization_code' =
                         [authorization_code EXCEPT
                            ![f] = Find(request[f].query, "code")]
                    /\ pc' = [pc EXCEPT ![f] = AfterAccept]
                    /\ UNCHANGED <<result, cause>>
                 \/ /\ Return(f, IoError, "respond_error")
                    /\ UNCHANGED authorization_code
         ELSE /\ response' = [response EXCEPT ![f] = "422 Invalid Query"]
              /\ rejected' = [rejected EXCEPT ![f] = TRUE]
              /\ answered' = [answered EXCEPT ![f] = TRUE]
              /\ rejected_stale' =
                   [rejected_stale EXCEPT
                      ![f] = @ \/ \E g \in Flows \ {f} :
                                   /\ pc[g] = "done"
                                   /\ csrf_token[g] =
                                        Find(request[f].query, "state")]
              /\ UNCHANGED <<authorization_code, accepted>>
              /\ \/ /\ pc' = [pc EXCEPT ![f] = AfterReject]
                    /\ UNCHANGED <<result, cause>>
                 \/ Return(f, IoError, "respond_error")
  /\ UNCHANGED <<close_handle, queue, csrf_token, polled, closed_during,
                 callback_returned, auth_url, callback_calls, exchanged,
                 pure_vars>>

\* Exchange that asks again when the token endpoint refuses the code.
ExchangeRetries(f) ==
  /\ pc[f] = "exchange"
  /\ \/ Return(f, OkToken, "exchanged")
     \/ /\ Len(exchanged[f]) < 2
        /\ cause' = [cause EXCEPT ![f] = "exchange_failed"]
        /\ UNCHANGED <<pc, result>>
     \/ /\ Len(exchanged[f]) >= 2
        /\ Return(f, ExchangeErrorResult, "exchange_failed")
  /\ exchanged' = [exchanged EXCEPT ![f] = Append(@, authorization_code[f])]
  /\ UNCHANGED <<close_handle, queue, csrf_token, request, authorization_code,
                 response, rejected, polled, closed_during,
                 callback_returned, auth_url, callback_calls, accepted,
                 answered, rejected_stale, pure_vars>>

\* client.exchange_code(..).request_async(..).await.map_err(..)
Exchange(f) ==
  /\ pc[f] = "exchange"
  /\ \/ Return(f, OkToken, "exchanged")
     \/ Return(f, ExchangeErrorResult, "exchange_failed")
  /\ exchanged' = [exchanged EXCEPT ![f] = Append(@, authorization_code[f])]
  /\ UNCHANGED <<close_handle, queue, csrf_token, request, authorization_code,
                 response, rejected, polled, closed_during,
                 callback_returned, auth_url, callback_calls, accepted,
                 answered, rejected_stale, pure_vars>>

\* The steps a started call takes by itself.
FlowStep(f) ==
  \/ Callback(f)
  \/ Recv(f)
  \/ CheckClose(f)
  \/ HandleRequest(f)
  \/ Exchange(f)

Next ==
  \/ \E r \in Requests : RequestArrives(r)
  \/ CloseAuthorizationServer
  \/ \E f \in Flows : GetToken(f)
  \/ \E f \in Flows : FlowStep(f)

Spec == Init /\ [][Next]_vars

\* The thread that runs a call keeps running: every started call takes its
\* next step.  Nothing is assumed of the environment.
LiveSpec == Spec /\ \A f \in Flows : WF_vars(FlowStep(f))

\* The state of the flows before any call of get_token.
FlowsIdle ==
  /\ close_handle = FALSE
  /\ queue = <<>>
  /\ pc = [f \in Flows |-> "idle"]
  /\ csrf_token = [f \in Flows |-> NoToken]
  /\ request = [f \in Flows |-> NoRequest]
  /\ authorization_code = [f \in Flows |-> NoCode]
  /\ result = [f \in Flows |-> NoResult]
  /\ cause = [f \in Flows |-> "none"]
  /\ response = [f \in Flows |-> "none"]
  /\ rejected = [f \in Flows |-> FALSE]
  /\ polled = [f \in Flows |-> FALSE]
  /\ closed_during = [f \in Flows |-> FALSE]
  /\ callback_returned = [f \in Flows |-> "none"]
  /\ auth_url = [f \in Flows |-> NoUrl]
  /\ callback_calls = [f \in Flows |-> <<>>]
  /\ exchanged = [f \in Flows |-> <<>>]
  /\ accepted = [f \in Flows |-> NoAccept]
  /\ answered = [f \in Flows |-> TRUE]
  /\ rejected_stale = [f \in Flows |-> FALSE]

PureInit ==
  /\ FlowsIdle
  /\ call \in PureCalls
  /\ ret = NoRet

\* get_token renders the scopes it was given into the URL.
RenderScopes ==
  /\ call.op = "scope_param"
  /\ ret.kind = "none"
  /\ ret' = [kind |-> "Ok", value |-> ScopeParam(call.arg)]
  /\ UNCHANGED <<close_handle, queue, flow_vars, call>>

\* PoEApiAccountScope::from_str(str) / PoEApiScope::from_str(str)
FromStr ==
  /\ call.op = "from_str"
  /\ ret.kind = "none"
  /\ ret' = from_str(call.arg)
  /\ UNCHANGED <<close_handle, queue, flow_vars, call>>

\* PoEApiConfigBuilder::build()
BuildConfig ==
  /\ call.op = "build"
  /\ ret.kind = "none"
  /\ ret' = build(call.arg)
  /\ UNCHANGED <<close_handle, queue, flow_vars, call>>

\* request.send_checked().await
SendChecked ==
  /\ call.op = "send_checked"
  /\ ret.kind = "none"
  /\ ret' = send_checked(call.arg)
  /\ UNCHANGED <<close_handle, queue, flow_vars, call>>

PureNext ==
  \/ RenderScopes
  \/ FromStr
  \/ BuildConfig
  \/ SendChecked

PureSpec == PureInit /\ [][PureNext]_vars

(***************************************************************************)
(* The claims.                                                             *)
(***************************************************************************)

\* The call f is inside get_authorization_code.
Waiting(f) == pc[f] \in {"recv", "timeout", "handle"}

\* In this step the call f finishes handling the request it received, and
\* the response it wrote was not refused by the transport.
Handled(f) ==
  /\ pc[f] = "handle"
  /\ pc'[f] # "handle"
  /\ cause'[f] # "respond_error"

\* C1: a request with state equal to the expected token and a code makes the
\* call return that request's code and stop waiting; every other request is
\* answered with 422 and the wait continues.
C1_AcceptOrReject ==
  [][\A f \in Flows :
       Handled(f) =>
         IF Accepts(csrf_token[f], request[f])
           THEN /\ authorization_code'[f] = Find(request[f].query, "code")
                /\ response'[f] = "200 close_html"
                /\ ~Waiting(f)'
           ELSE /\ response'[f] = "422 Invalid Query"
                /\ pc'[f] = "recv"]_vars

\* C2: once close_authorization_server has run while the call waits, and no
\* request arrives from then on, the call ends with the cancellation failure;
\* a poll that times out with the flag set is the call's last poll.
C2_CancelledAtNextTimeout ==
  /\ \A f \in Flows :
       []((close_handle /\ pc[f] \in {"recv", "timeout"} /\ [](queue = <<>>))
            => <>(pc[f] = "done" /\ result[f] = FailedToGetAuthorizationCode))
  /\ [][\A f \in Flows :
          (pc[f] = "timeout" /\ close_handle /\ pc'[f] # "timeout")
            => (pc'[f] = "done" /\ cause'[f] = "cancelled")]_vars
  /\ [][\A f \in Flows : pc[f] = "done" => pc'[f] = "done"]_vars

\* C2 witness: a call ended by the flag, closed while it ran, that never
\* received a request.
C2_Witness ==
  \E f \in Flows :
    /\ cause[f] = "cancelled"
    /\ closed_during[f]
    /\ response[f] = "none"
    /\ result[f] = FailedToGetAuthorizationCode

\* C3: once close_authorization_server has run during a call, the call
\* eventually ends, whatever requests arrive.
C3_ClosedFlowEnds ==
  \A f \in Flows : (closed_during[f] /\ pc[f] # "done") ~> (pc[f] = "done")

\* C4: a call fails as cancelled only if close_authorization_server ran
\* during that call.
C4_OwnFlagOnly ==
  \A f \in Flows : cause[f] = "cancelled" => closed_during[f]

\* C5: a request that is not accepted (mismatched, incomplete or
\* unparseable) leaves the loop running.
C5_RejectKeepsWaiting ==
  [][\A f \in Flows :
       (Handled(f) /\ ~(request[f].parses /\ Accepts(csrf_token[f], request[f])))
         => Waiting(f)']_vars

\* C6: the value returned for a cancellation differs from the value returned
\* for a failed exchange and from the one returned for a listener error.
C6_CancellationDistinct ==
  \A f \in Flows : \A g \in Flows :
    (cause[f] = "cancelled" /\ cause[g] \in {"exchange_failed", "recv_error"})
      => result[f] # result[g]

C8_RecvErrorVerbatim ==
  \A f \in Flows : cause[f] = "recv_error" => result[f] = IoError

\* C9: a call that has entered the wait returns only after accepting a
\* request, after seeing the flag set, or after a transport error.
C9_NoOtherReturn ==
  \A f \in Flows :
    (pc[f] = "done" /\ polled[f])
      => cause[f] \in {"exchanged", "exchange_failed", "cancelled",
                       "recv_error", "respond_error"}

\* C10: when the callback fails, get_token returns that failure at once: no
\* poll, no response, no code, no exchange.
C10_CallbackFailureAborts ==
  \A f \in Flows :
    callback_returned[f] \in CallbackErrors
      => /\ pc[f] = "done"
         /\ result[f] = callback_returned[f]
         /\ ~polled[f]
         /\ response[f] = "none"
         /\ authorization_code[f] = NoCode
         /\ cause[f] = "callback_failed"

\* C10 witness: a call whose callback failed, on a listener that holds a
\* request and that another call is polling.
C10_Witness ==
  \E f \in Flows : \E g \in Flows \ {f} :
    /\ callback_returned[f] \in CallbackErrors
    /\ pc[f] = "done"
    /\ queue # <<>>
    /\ polled[g]

\* C11: a call asks the token endpoint at most once, with the code its own
\* listener call returned; when the exchange fails the call ends with
\* FailedToGetAuthorizationCode and neither asks nor polls again.
C11_ExchangeOnce ==
  /\ [](\A f \in Flows :
          /\ Len(exchanged[f]) <= 1
          /\ exchanged[f] # <<>> =>
               /\ exchanged[f][1] \in Codes
               /\ exchanged[f][1] = authorization_code[f]
               /\ accepted[f].state = csrf_token[f]
          /\ cause[f] = "exchange_failed" =>
               /\ pc[f] = "done"
               /\ result[f] = FailedToGetAuthorizationCode)
  /\ [][\A f \in Flows :
          cause[f] = "exchange_failed" =>
            /\ pc'[f] = "done"
            /\ result'[f] = result[f]
            /\ exchanged'[f] = exchanged[f]
            /\ request'[f] = request[f]]_vars

\* A call whose exchange failed.
C11_Witness ==
  \E f \in Flows :
    /\ cause[f] = "exchange_failed"
    /\ exchanged[f] = <<authorization_code[f]>>

\* C15: with two calls waiting on the same listener, a request that carries
\* the state one of them expects, and a code, is not taken and answered with
\* 422 by the other.
C15_NoCrossConsumption ==
  [][\A f \in Flows : \A g \in Flows \ {f} :
       (/\ Handled(f)
        /\ Waiting(g)
        /\ request[f].parses
        /\ Accepts(csrf_token[g], request[f]))
         => response'[f] # "422 Invalid Query"]_vars

\* C16: the callback is called once, with the authorization URL, before the
\* first poll; the exchange happens only with a code the listener returned;
\* a token is returned only after an accepted request with the call's own
\* state and a successful exchange.
C16_StepOrder ==
  \A f \in Flows :
    /\ Len(callback_calls[f]) <= 1
    /\ pc[f] \notin {"idle", "callback"} =>
         callback_calls[f] = <<auth_url[f]>>
    /\ polled[f] =>
         /\ callback_returned[f] = "Ok"
         /\ callback_calls[f] = <<auth_url[f]>>
    /\ exchanged[f] # <<>> =>
         /\ polled[f]
         /\ authorization_code[f] # NoCode
         /\ accepted[f] # NoAccept
    /\ result[f] = OkToken =>
         /\ cause[f] = "exchanged"
         /\ exchanged[f] = <<authorization_code[f]>>
         /\ accepted[f].state = csrf_token[f]
         /\ response[f] = "200 close_html"

\* A call that returned a token.
C16_Witness ==
  \E f \in Flows :
    /\ result[f] = OkToken
    /\ callback_calls[f] = <<auth_url[f]>>

\* C17: the calls' tokens are pairwise distinct, the state a call expects is
\* the one in its authorization URL, and a request whose state is another
\* call's token is answered with 422 and yields no code.
C17_FreshState ==
  /\ [](\A f \in Flows :
          /\ csrf_token[f] = auth_url[f].state
          /\ \A g \in Flows \ {f} :
               csrf_token[f] # NoToken => csrf_token[f] # csrf_token[g])
  /\ [][\A f \in Flows : \A g \in Flows \ {f} :
          (/\ Handled(f)
           /\ request[f].parses
           /\ csrf_token[g] # NoToken
           /\ Find(request[f].query, "state") = csrf_token[g])
            => /\ response'[f] = "422 Invalid Query"
               /\ authorization_code'[f] = authorization_code[f]
               /\ pc'[f] = "recv"]_vars

\* A call has answered 422 to a request that carried the state of a call
\* that had already ended.
C17_Witness == \E f \in Flows : rejected_stale[f]

\* C18: the flag is looked at only after an empty poll: a call is cancelled
\* only from there, and a matching request handled while the flag is set is
\* answered 200 and its code goes on to the exchange.
C18_CloseOnlyOnEmptyPoll ==
  [][\A f \in Flows :
       /\ (cause'[f] = "cancelled" /\ cause[f] # "cancelled")
            => pc[f] = "timeout" /\ close_handle
       /\ (/\ Handled(f)
           /\ close_handle
           /\ request[f].parses
           /\ Accepts(csrf_token[f], request[f]))
            => /\ response'[f] = "200 close_html"
               /\ authorization_code'[f] = Find(request[f].query, "code")
               /\ pc'[f] = "exchange"]_vars

\* A call accepted a request while the flag was set, and went on to the
\* exchange.
C18_Witness ==
  \E f \in Flows :
    /\ accepted[f].closed
    /\ authorization_code[f] # NoCode
    /\ exchanged[f] # <<>>

\* C19: every request a call received has been answered before the call
\* receives the next one or ends, and a call that answered 200 has stopped
\* waiting.
C19_EachRequestAnswered ==
  \A f \in Flows :
    /\ pc[f] # "handle" => answered[f]
    /\ (response[f] = "200 close_html" /\ cause[f] # "respond_error")
         => pc[f] \in {"exchange", "done"}

\* The documented name of each scope.
CanonicalName ==
  [Profile |-> <<"account", ":", "profile">>,
   Leagues |-> <<"account", ":", "leagues">>,
   Stashes |-> <<"account", ":", "stashes">>,
   Characters |-> <<"account", ":", "characters">>,
   LeagueAccounts |-> <<"account", ":", "league_accounts">>,
   ItemFilter |-> <<"account", ":", "item_filter">>]

\* The position of the first space of str, 0 when it has none.
RECURSIVE FirstSpace(_, _)
FirstSpace(str, i) ==
  IF i > Len(str) THEN 0
  ELSE IF str[i] = " " THEN i
  ELSE FirstSpace(str, i + 1)

\* The entries of a space-separated list.
RECURSIVE Split(_)
Split(str) ==
  IF str = <<>> THEN <<>>
  ELSE IF FirstSpace(str, 1) = 0 THEN <<str>>
  ELSE <<SubSeq(str, 1, FirstSpace(str, 1) - 1)>>
         \o Split(SubSeq(str, FirstSpace(str, 1) + 1, Len(str)))

\* How often the entry e occurs in the list.
Count(list, e) == Cardinality({i \in 1..Len(list) : list[i] = e})

\* C12: the scope parameter is the space-separated list of the canonical
\* names of the scopes supplied, one entry per scope in the order given,
\* duplicates kept; supplying them in another order gives the same entries
\* with the same multiplicities.
C12_ScopeParameter ==
  (call.op = "scope_param" /\ ret.kind = "Ok") =>
    LET entries == Split(ret.value)
    IN  /\ Len(entries) = Len(call.arg)
        /\ \A i \in 1..Len(call.arg) :
             entries[i] = CanonicalName[call.arg[i]]
        /\ \A p \in Permutations(1..Len(call.arg)) :
             LET other ==
                   Split(ScopeParam([i \in 1..Len(call.arg) |->
                                       call.arg[p[i]]]))
             IN  \A sc \in AccountScopes :
                   Count(other, CanonicalName[sc])
                     = Count(entries, CanonicalName[sc])

\* The same scope was supplied twice and is rendered twice.
C12_Witness ==
  /\ call.op = "scope_param"
  /\ ret.kind = "Ok"
  /\ Len(call.arg) = 2
  /\ call.arg[1] = call.arg[2]
  /\ Count(Split(ret.value), CanonicalName[call.arg[1]]) = 2

C14_SendChecked ==
  (call.op = "send_checked" /\ ret.kind # "none" /\ call.arg.sent) =>
    IF call.arg.status >= 400 /\ call.arg.status <= 599
      THEN call.arg.body.json =>
             /\ ret.kind = "Err"
             /\ ret.error = "PoEApiError"
             /\ ret.fields.error = call.arg.body.error
             /\ ret.fields.error_description
                  = call.arg.body.error_description
      ELSE /\ ret.kind = "Ok"
           /\ ret.response = call.arg

\* A 5xx response with a structured body came back as the typed error.
C14_Witness ==
  /\ call.op = "send_checked"
  /\ call.arg.status = 503
  /\ call.arg.body.json
  /\ ret.kind = "Err"
  /\ ret.error = "PoEApiError"

\* C20: parsing the rendering of each of the six scopes gives that scope
\* back, and a string that from_str has no spelling for gives the parse
\* error.
C20_ParseRendersRoundTrip ==
  (call.op = "from_str" /\ ret.kind # "none") =>
    /\ \A sc \in AccountScopes :
         call.arg = to_string(sc) => ret = ParsedScope(sc)
    /\ ret.kind = "Err" => ret = ParseError

====
